---- MODULE Spec2Model ----
(***************************************************************************)
(* Model of generate_report.py: a linear script that reads point loads     *)
(* from a spreadsheet, evaluates the statics of a simply supported beam    *)
(* (compute_sfd_bmd), assembles a PyLaTeX document and renders it.         *)
(*                                                                         *)
(* Numbers.  The script computes in binary floating point.  The model      *)
(* computes in exact rational arithmetic: a number is a record             *)
(* [n |-> numerator, d |-> denominator] in lowest terms with d > 0.  The   *)
(* IEEE special values that numpy's division produces are kept, with       *)
(* d = 0:  [n |-> 1, d |-> 0] is +inf, [n |-> -1, d |-> 0] is -inf and     *)
(* [n |-> 0, d |-> 0] is nan.  Rounding error is therefore not modelled;   *)
(* every equality below is the exact-arithmetic one.                       *)
(***************************************************************************)
EXTENDS Integers, Sequences, FiniteSets, TLC

VARIABLES
    pc,               \* position of the script / of the function call
    excel,            \* the spreadsheet on disk (input resource)
    df,               \* line 43: the DataFrame read from the spreadsheet
    forces,           \* line 50 / argument `forces`
    BEAM_LENGTH,      \* line 52 / argument `length`
    x, sfd, bmd,      \* line 55: the three returned sequences
    R1, R2,           \* line 55: the two returned reactions
    tikz_sfd_coords,  \* line 58
    tikz_bmd_coords,  \* line 59
    doc,              \* line 64: the document, a sequence of blocks
    files,            \* files written to the working directory
    stdout,           \* what has been printed
    error,            \* the uncaught exception that ended the run, or "none"
    stages            \* the stages entered so far, in order

vars == <<pc, excel, df, forces, BEAM_LENGTH, x, sfd, bmd, R1, R2,
          tikz_sfd_coords, tikz_bmd_coords, doc, files, stdout, error, stages>>

----------------------------------------------------------------------------
(* Arithmetic on numbers *)

Abs(k) == IF k < 0 THEN -k ELSE k

Sgn(k) == IF k > 0 THEN 1 ELSE IF k < 0 THEN -1 ELSE 0

RECURSIVE Gcd(_, _)
Gcd(a, b) == IF b = 0 THEN a ELSE Gcd(b, a % b)

\* the number n/d in lowest terms; d = 0 gives inf, -inf or nan
Q(n, d) ==
    IF d = 0 THEN [n |-> Sgn(n), d |-> 0]
    ELSE LET g == Gcd(Abs(n), Abs(d))
         IN  [n |-> Sgn(d) * (n \div g), d |-> Abs(d) \div g]

Num(k) == [n |-> k, d |-> 1]

Zero == Num(0)

NaN == [n |-> 0, d |-> 0]

\* Python's None: the value of a name not yet assigned
None == [none |-> TRUE]

IsNaN(a) == a.d = 0 /\ a.n = 0

IsFinite(a) == a.d > 0

Neg(a) == [n |-> -a.n, d |-> a.d]

\* a + b  (inf + inf = inf, inf + -inf = nan, nan + anything = nan)
Add(a, b) ==
    IF a.d = 1 /\ b.d = 1 THEN [n |-> a.n + b.n, d |-> 1]
    ELSE IF a.d = 0 /\ b.d = 0 THEN (IF a.n = b.n THEN a ELSE NaN)
    ELSE IF a.d = 0 THEN a
    ELSE IF b.d = 0 THEN b
    ELSE IF a.d = b.d THEN Q(a.n + b.n, a.d)
    ELSE LET g == Gcd(a.d, b.d)
         IN  Q(a.n * (b.d \div g) + b.n * (a.d \div g), (a.d \div g) * b.d)

Sub(a, b) == Add(a, Neg(b))

\* a * b  (inf * 0 = nan); cancelling crosswise keeps the lowest terms
Mul(a, b) ==
    IF a.d = 1 /\ b.d = 1 THEN [n |-> a.n * b.n, d |-> 1]
    ELSE IF a.d = 0 \/ b.d = 0 THEN [n |-> Sgn(a.n) * Sgn(b.n), d |-> 0]
    ELSE LET g1 == Gcd(Abs(a.n), b.d)
             g2 == Gcd(Abs(b.n), a.d)
         IN  [n |-> (a.n \div g1) * (b.n \div g2),
              d |-> (a.d \div g2) * (b.d \div g1)]

\* a / b as numpy divides scalars: x / 0 is inf, -inf or nan (with a
\* RuntimeWarning), never an exception
Div(a, b) ==
    IF IsNaN(a) \/ IsNaN(b) THEN NaN
    ELSE IF b.d = 0 THEN (IF a.d = 0 THEN NaN ELSE Zero)
    ELSE IF b.n = 0 THEN [n |-> Sgn(a.n), d |-> 0]
    ELSE Mul(a, Q(b.d, b.n))

\* a >= b  (False when either side is nan)
Ge(a, b) ==
    IF IsNaN(a) \/ IsNaN(b) THEN FALSE
    ELSE IF a.d = 0 /\ b.d = 0 THEN a.n >= b.n
    ELSE IF a.d = 0 THEN a.n > 0
    ELSE IF b.d = 0 THEN b.n < 0
    ELSE a.n * b.d >= b.n * a.d

Gt(a, b) == Ge(a, b) /\ a # b

\* Python's sum(list): starts from the integer 0 and adds left to right
RECURSIVE SumFrom(_, _, _)
SumFrom(acc, s, k) ==
    IF k > Len(s) THEN acc ELSE SumFrom(Add(acc, s[k]), s, k + 1)

PySum(s) == SumFrom(Zero, s, 1)

----------------------------------------------------------------------------
(* compute_sfd_bmd, lines 16-38.  A load is a pair <<a, P>>. *)

\* line 20: the number of samples
N == 400

\* Linspace without its endpoint (endpoint=False): num steps, none set to stop
LinspaceNoEndpoint(start, stop, num) ==
    LET step == Div(Sub(stop, start), Num(num))
    IN  [i \in 1..num |-> Add(Mul(Num(i - 1), step), start)] \o <<>>

\* np.linspace(start, stop, num): num points, step (stop - start)/(num - 1),
\* point i at i * step + start, the last point set to stop itself
\* (\o <<>> makes the array a sequence value, computed once)
Linspace(start, stop, num) ==
    LET step == Div(Sub(stop, start), Num(num - 1))
    IN  [i \in 1..num |->
            IF i = num THEN stop
                       ELSE Add(Mul(Num(i - 1), step), start)] \o <<>>

\* R1Term with the lever arm of the other support
R1TermMirrored(length, a, P) == Div(Mul(P, a), length)

\* line 23: one term of R1
R1Term(length, a, P) == Div(Mul(P, Sub(length, a)), length)

\* R2Term without the division by the length
R2TermNoDivide(length, a, P) == Mul(P, a)

\* line 24: one term of R2
R2Term(length, a, P) == Div(Mul(P, a), length)

\* line 23
Reaction1(length, loads) ==
    PySum([k \in 1..Len(loads) |-> R1Term(length, loads[k][1], loads[k][2])])

\* line 24
Reaction2(length, loads) ==
    PySum([k \in 1..Len(loads) |-> R2Term(length, loads[k][1], loads[k][2])])

\* Applies with the open inequality xi > a
AppliesStrict(xi, a) == Gt(xi, a)

\* line 32: the load at a counts at xi
Applies(xi, a) == Ge(xi, a)

\* line 33
ShearStep(V, P) == Sub(V, P)

\* MomentStep with the lever arm taken from the origin
MomentStepNoLever(M, P, xi, a) == Sub(M, Mul(P, xi))

\* line 34
MomentStep(M, P, xi, a) == Sub(M, Mul(P, Sub(xi, a)))

\* lines 31-34: the inner loop from load k on, acc = [V, M] so far
RECURSIVE InnerLoop(_, _, _, _)
InnerLoop(acc, xi, loads, k) ==
    IF k > Len(loads) THEN acc
    ELSE LET a == loads[k][1]
             P == loads[k][2]
         IN  InnerLoop(IF Applies(xi, a)
                         THEN [V |-> ShearStep(acc.V, P),
                               M |-> MomentStep(acc.M, P, xi, a)]
                         ELSE acc,
                       xi, loads, k + 1)

\* SampleInit with the moment started at xi, the reaction left out
SampleInitNoReaction(r1, xi) == [V |-> r1, M |-> xi]

\* lines 29-30: V and M before the inner loop
SampleInit(r1, xi) == [V |-> r1, M |-> Mul(r1, xi)]

\* lines 29-36: one pass of the outer loop
SampleAt(r1, xi, loads) == InnerLoop(SampleInit(r1, xi), xi, loads, 1)

\* lines 26-36: the outer loop; entry i is [V, M] at xs[i]
OuterLoop(xs, r1, loads) ==
    [i \in 1..Len(xs) |-> SampleAt(r1, xs[i], loads)] \o <<>>

\* lines 16-38
compute_sfd_bmd(length, loads) ==
    LET xs  == Linspace(Zero, length, N)
        r1  == Reaction1(length, loads)
        r2  == Reaction2(length, loads)
        out == OuterLoop(xs, r1, loads)
    IN  [x      |-> xs,
         shear  |-> [i \in 1..Len(xs) |-> out[i].V],
         moment |-> [i \in 1..Len(xs) |-> out[i].M],
         R1     |-> r1,
         R2     |-> r2]

----------------------------------------------------------------------------
(* The script's constants and the pandas / PyLaTeX calls it makes *)

\* line 9
EXCEL_PATH == "Book1.xlsx"

\* line 10
BEAM_IMAGE_PATH == "beam.png"

\* line 11
OUTPUT_PDF == "Engineering_Report.pdf"

\* line 43: pd.read_excel stores the sheet column by column
read_excel(sheet) ==
    [columns |-> sheet.columns,
     Position |-> [k \in 1..Len(sheet.rows) |-> sheet.rows[k][1]],
     Force    |-> [k \in 1..Len(sheet.rows) |-> sheet.rows[k][2]]]

\* line 50: list(zip(df["Position"], df["Force"]))
ZipColumns(frame) ==
    [k \in 1..Len(frame.Position) |-> <<frame.Position[k], frame.Force[k]>>]

\* line 52: Series.max(), nan for a column with no values
RECURSIVE MaxFrom(_, _, _)
MaxFrom(best, s, k) ==
    IF k > Len(s) THEN best
    ELSE MaxFrom(IF Gt(s[k], best) THEN s[k] ELSE best, s, k + 1)

\* SeriesMax with 0 for a column with no values
SeriesMaxDefaultZero(s) == IF Len(s) = 0 THEN Zero ELSE MaxFrom(s[1], s, 2)

SeriesMax(s) == IF Len(s) = 0 THEN NaN ELSE MaxFrom(s[1], s, 2)

\* round(v, 3): to the nearest multiple of 1/1000, ties to even; inf and nan
\* are returned as they are
Round3(a) ==
    IF a.d = 0 THEN a
    ELSE LET m == a.n * 1000
             q == m \div a.d
             r == m % a.d
             k == IF 2 * r < a.d THEN q
                  ELSE IF 2 * r > a.d THEN q + 1
                  ELSE IF q % 2 = 0 THEN q ELSE q + 1
         IN  Q(k, 1000)

\* lines 58-59: one "(x,y)" entry per sample, joined in order
TikzCoords(xs, ys) ==
    [i \in 1..Len(xs) |-> <<Round3(xs[i]), Round3(ys[i])>>] \o <<>>

\* lines 64-71: title, author, date, \maketitle, new page
TitlePage == [kind |-> "title_page"]

\* lines 74-75
TableOfContents == [kind |-> "table_of_contents"]

\* lines 80-89: the section with the figure that includes the image
Introduction == [kind |-> "introduction", image |-> BEAM_IMAGE_PATH]

\* TableRows with the two cells of a row exchanged
TableRowsSwapped(frame) ==
    [k \in 1..Len(frame.Position) |-> <<frame.Force[k], frame.Position[k]>>]

\* lines 99-101: one table row per DataFrame row, in iterrows order
TableRows(frame) ==
    [k \in 1..Len(frame.Position) |-> <<frame.Position[k], frame.Force[k]>>]

\* lines 94-101
ForceTable(frame) ==
    [kind   |-> "load_table",
     header |-> <<"Position (m)", "Force (kN)">>,
     rows   |-> TableRows(frame)]

\* SfdBlock emitted under the other diagram's heading
SfdBlockAsBmd(coords) == [kind |-> "bending_moment_diagram", coords |-> coords]

\* lines 106-127
SfdBlock(coords) == [kind |-> "shear_force_diagram", coords |-> coords]

\* lines 130-147
BmdBlock(coords) == [kind |-> "bending_moment_diagram", coords |-> coords]

\* lines 152-156
Summary == [kind |-> "summary"]

\* the files doc.generate_pdf(OUTPUT_PDF, clean_tex=False) leaves: the .tex
\* source it writes before it calls the compiler, and the compiler's .pdf,
\* which is complete only when the compiler succeeded
TexFile == [name |-> "Engineering_Report.pdf.tex", complete |-> TRUE]

PdfFile == [name |-> "Engineering_Report.pdf.pdf", complete |-> TRUE]

PartialPdfFile == [name |-> "Engineering_Report.pdf.pdf", complete |-> FALSE]

\* what the compiler run can end in: "ok"; the compiler is not found
\* (CompilerError); it exits non-zero (CalledProcessError), as for a missing
\* image, leaving no .pdf or an incomplete one
RenderOutcomes == {"ok", "compiler_not_found", "failed_no_pdf", "failed_partial_pdf"}

----------------------------------------------------------------------------
(* Bounded inputs *)

\* the longest load list handed to compute_sfd_bmd on its own
MaxLoads == 2

\* the most data rows in the spreadsheet
MaxRows == 2

\* beam lengths: 399 puts every sample on an integer position
Lengths == {Num(6), Num(10), Num(399)}

\* the loads tried with each length: on a support, between samples, on a
\* sample (133 and 266 of 399), of either sign and zero, two at one position,
\* beyond the span (12 of 10), at a fraction (5/2)
LoadsFor(length) ==
    CASE length = Num(6)   -> {<<Num(2), Num(6)>>, <<Num(4), Num(6)>>,
                               <<Num(2), Num(-3)>>, <<Num(0), Num(10)>>,
                               <<Num(3), Num(0)>>}
      [] length = Num(10)  -> {<<Num(5), Num(10)>>, <<Q(5, 2), Num(6)>>,
                               <<Num(10), Num(-3)>>, <<Num(12), Num(6)>>,
                               <<Num(0), Num(10)>>}
      [] length = Num(399) -> {<<Num(133), Num(6)>>, <<Num(266), Num(-3)>>,
                               <<Num(0), Num(10)>>, <<Num(399), Num(6)>>,
                               <<Q(1, 2), Num(10)>>}

\* the data rows a spreadsheet can hold: <<Position, Force>>
SheetRows == {<<Num(0), Num(6)>>, <<Num(3), Num(6)>>, <<Num(1), Num(-3)>>,
              <<Num(-2), Num(6)>>, <<Q(3, 2), Num(10)>>}

SeqsUpTo(S, m) == UNION {[1..k -> S] : k \in 0..m}

\* the spreadsheets: missing, lacking a column, or holding up to MaxRows rows
Sheets ==
    {[exists |-> FALSE, columns |-> {}, rows |-> <<>>]}
    \cup {[exists |-> TRUE, columns |-> c, rows |-> <<>>] :
            c \in {{"Position"}, {"Force"}, {}}}
    \cup {[exists |-> TRUE, columns |-> {"Position", "Force"}, rows |-> r] :
            r \in SeqsUpTo(SheetRows, MaxRows)}

----------------------------------------------------------------------------
(* The function on its own: arguments drawn from the bounded sets, one call *)

NoSheet == [exists |-> FALSE, columns |-> {}, rows |-> <<>>]

FnInit ==
    /\ pc = "fn_call"
    /\ BEAM_LENGTH \in Lengths
    /\ forces \in SeqsUpTo(LoadsFor(BEAM_LENGTH), MaxLoads)
    /\ x = <<>> /\ sfd = <<>> /\ bmd = <<>>
    /\ R1 = None /\ R2 = None
    /\ excel = NoSheet
    /\ df = None
    /\ tikz_sfd_coords = <<>> /\ tikz_bmd_coords = <<>>
    /\ doc = <<>> /\ files = {} /\ stdout = <<>>
    /\ error = "none" /\ stages = <<>>

\* x, sfd, bmd, R1, R2 = compute_sfd_bmd(length, forces)
FnCall ==
    /\ pc = "fn_call"
    /\ LET r == compute_sfd_bmd(BEAM_LENGTH, forces)
       IN  /\ x' = r.x
           /\ sfd' = r.shear
           /\ bmd' = r.moment
           /\ R1' = r.R1
           /\ R2' = r.R2
    /\ pc' = "fn_return"
    /\ UNCHANGED <<excel, df, forces, BEAM_LENGTH, tikz_sfd_coords,
                   tikz_bmd_coords, doc, files, stdout, error, stages>>

FnNext == FnCall

FnSpec == FnInit /\ [][FnNext]_vars

----------------------------------------------------------------------------
(* The script, lines 43-167, one action per statement group *)

Init ==
    /\ pc = "read_excel"
    /\ excel \in Sheets
    /\ df = None
    /\ forces = <<>>
    /\ BEAM_LENGTH = None
    /\ x = <<>> /\ sfd = <<>> /\ bmd = <<>>
    /\ R1 = None /\ R2 = None
    /\ tikz_sfd_coords = <<>> /\ tikz_bmd_coords = <<>>
    /\ doc = <<>> /\ files = {} /\ stdout = <<>>
    /\ error = "none" /\ stages = <<>>

\* an uncaught exception ends the run
Raise(e) == error' = e /\ pc' = "crashed"

\* line 43: df = pd.read_excel(EXCEL_PATH)
ReadExcel ==
    /\ pc = "read_excel"
    /\ stages' = Append(stages, "ingest")
    /\ IF ~excel.exists
         THEN Raise("FileNotFoundError") /\ UNCHANGED df
         ELSE df' = read_excel(excel) /\ pc' = "debug" /\ UNCHANGED error
    /\ UNCHANGED <<excel, forces, BEAM_LENGTH, x, sfd, bmd, R1, R2,
                   tikz_sfd_coords, tikz_bmd_coords, doc, files, stdout>>

\* lines 45-47: the three debug prints
DebugPrint ==
    /\ pc = "debug"
    /\ stdout' = stdout \o <<"--- DEBUG: Excel Columns ---", "columns", "head">>
    /\ pc' = "forces"
    /\ UNCHANGED <<excel, df, forces, BEAM_LENGTH, x, sfd, bmd, R1, R2,
                   tikz_sfd_coords, tikz_bmd_coords, doc, files, error, stages>>

\* line 50: forces = list(zip(df["Position"], df["Force"]))
BuildForces ==
    /\ pc = "forces"
    /\ IF "Position" \notin df.columns \/ "Force" \notin df.columns
         THEN Raise("KeyError") /\ UNCHANGED forces
         ELSE forces' = ZipColumns(df) /\ pc' = "length" /\ UNCHANGED error
    /\ UNCHANGED <<excel, df, BEAM_LENGTH, x, sfd, bmd, R1, R2,
                   tikz_sfd_coords, tikz_bmd_coords, doc, files, stdout, stages>>

\* line 52: BEAM_LENGTH = df["Position"].max()
BeamLength ==
    /\ pc = "length"
    /\ BEAM_LENGTH' = SeriesMax(df.Position)
    /\ pc' = "compute"
    /\ UNCHANGED <<excel, df, forces, x, sfd, bmd, R1, R2, tikz_sfd_coords,
                   tikz_bmd_coords, doc, files, stdout, error, stages>>

\* line 55: x, sfd, bmd, R1, R2 = compute_sfd_bmd(BEAM_LENGTH, forces)
Compute ==
    /\ pc = "compute"
    /\ stages' = Append(stages, "compute")
    /\ LET r == compute_sfd_bmd(BEAM_LENGTH, forces)
       IN  /\ x' = r.x
           /\ sfd' = r.shear
           /\ bmd' = r.moment
           /\ R1' = r.R1
           /\ R2' = r.R2
    /\ pc' = "coords"
    /\ UNCHANGED <<excel, df, forces, BEAM_LENGTH, tikz_sfd_coords,
                   tikz_bmd_coords, doc, files, stdout, error>>

\* lines 58-59
FormatCoords ==
    /\ pc = "coords"
    /\ tikz_sfd_coords' = TikzCoords(x, sfd)
    /\ tikz_bmd_coords' = TikzCoords(x, bmd)
    /\ pc' = "title"
    /\ UNCHANGED <<excel, df, forces, BEAM_LENGTH, x, sfd, bmd, R1, R2,
                   doc, files, stdout, error, stages>>

\* doc.append and doc.create add a block at the end of the document
AppendBlock(at, block, next) ==
    /\ pc = at
    /\ doc' = Append(doc, block)
    /\ pc' = next
    /\ UNCHANGED <<excel, df, forces, BEAM_LENGTH, x, sfd, bmd, R1, R2,
                   tikz_sfd_coords, tikz_bmd_coords, files, stdout, error>>

\* lines 64-71
AddTitlePage ==
    /\ AppendBlock("title", TitlePage, "toc")
    /\ stages' = Append(stages, "assemble")

\* lines 74-75
AddTableOfContents ==
    /\ AppendBlock("toc", TableOfContents, "intro")
    /\ UNCHANGED stages

\* lines 80-89: add_image records the path, it does not open the file
AddIntroduction ==
    /\ AppendBlock("intro", Introduction, "table")
    /\ UNCHANGED stages

\* lines 94-101
AddForceTable ==
    /\ AppendBlock("table", ForceTable(df), "sfd")
    /\ UNCHANGED stages

\* lines 106-127
AddSfd ==
    /\ AppendBlock("sfd", SfdBlock(tikz_sfd_coords), "bmd")
    /\ UNCHANGED stages

\* lines 130-147
AddBmd ==
    /\ AppendBlock("bmd", BmdBlock(tikz_bmd_coords), "summary")
    /\ UNCHANGED stages

\* lines 152-156
AddSummary ==
    /\ AppendBlock("summary", Summary, "generate_pdf")
    /\ UNCHANGED stages

\* GeneratePdf inside a try/except that swallows the renderer's error
GeneratePdfCaught ==
    /\ pc = "generate_pdf"
    /\ stages' = Append(stages, "render")
    /\ \E outcome \in RenderOutcomes :
          files' = files \cup (IF outcome = "ok" THEN {TexFile, PdfFile}
                                                 ELSE {TexFile})
    /\ pc' = "print"
    /\ UNCHANGED <<excel, df, forces, BEAM_LENGTH, x, sfd, bmd, R1, R2,
                   tikz_sfd_coords, tikz_bmd_coords, doc, stdout, error>>

\* lines 162-166: doc.generate_pdf(OUTPUT_PDF, compiler=..., clean_tex=False)
\* writes the .tex source, then runs the compiler on it
GeneratePdf ==
    /\ pc = "generate_pdf"
    /\ stages' = Append(stages, "render")
    /\ \E outcome \in RenderOutcomes :
          CASE outcome = "ok" ->
                  /\ files' = files \cup {TexFile, PdfFile}
                  /\ pc' = "print"
                  /\ UNCHANGED error
            [] outcome = "compiler_not_found" ->
                  /\ files' = files \cup {TexFile}
                  /\ Raise("CompilerError")
            [] outcome = "failed_no_pdf" ->
                  /\ files' = files \cup {TexFile}
                  /\ Raise("CalledProcessError")
            [] outcome = "failed_partial_pdf" ->
                  /\ files' = files \cup {TexFile, PartialPdfFile}
                  /\ Raise("CalledProcessError")
    /\ UNCHANGED <<excel, df, forces, BEAM_LENGTH, x, sfd, bmd, R1, R2,
                   tikz_sfd_coords, tikz_bmd_coords, doc, stdout>>

\* line 167
PrintSuccess ==
    /\ pc = "print"
    /\ stdout' = Append(stdout, "PDF Generated Successfully!")
    /\ pc' = "done"
    /\ UNCHANGED <<excel, df, forces, BEAM_LENGTH, x, sfd, bmd, R1, R2,
                   tikz_sfd_coords, tikz_bmd_coords, doc, files, error, stages>>

Next ==
    \/ ReadExcel
    \/ DebugPrint
    \/ BuildForces
    \/ BeamLength
    \/ Compute
    \/ FormatCoords
    \/ AddTitlePage
    \/ AddTableOfContents
    \/ AddIntroduction
    \/ AddForceTable
    \/ AddSfd
    \/ AddBmd
    \/ AddSummary
    \/ GeneratePdf
    \/ PrintSuccess

Spec == Init /\ [][Next]_vars

----------------------------------------------------------------------------
(* Properties of compute_sfd_bmd, checked under FnSpec *)

Returned == pc = "fn_return"

Magnitude(load) == load[2]

Position(load) == load[1]

\* the magnitudes of all loads, in list order
AllMagnitudes == [k \in 1..Len(forces) |-> Magnitude(forces[k])]

\* the loads at or before xi (closed inequality a <= xi), in list order
LoadsUpTo(xi) == SelectSeq(forces, LAMBDA f : Ge(xi, Position(f)))

\* the sum of the magnitudes of the loads at or before xi
LoadUpTo(xi) ==
    LET sel == LoadsUpTo(xi)
    IN  PySum([k \in 1..Len(sel) |-> Magnitude(sel[k])])

\* the sum of P * (xi - a) over the loads at or before xi
LeverUpTo(xi) ==
    LET sel == LoadsUpTo(xi)
    IN  PySum([k \in 1..Len(sel) |->
                  Mul(Magnitude(sel[k]), Sub(xi, Position(sel[k])))])

\* every load position lies in [0, length]
InSpan ==
    \A k \in 1..Len(forces) :
        Ge(Position(forces[k]), Zero) /\ Ge(BEAM_LENGTH, Position(forces[k]))

\* C1: for every length > 0 and every load list, the returned reactions
\* satisfy R1 + R2 = the sum of all load magnitudes, whatever the number of
\* loads, their signs, or loads sharing a position.
VerticalEquilibrium ==
    Returned => Add(R1, R2) = PySum(AllMagnitudes)

\* C1 witness: two loads of opposite sign, and two loads at one position
VerticalEquilibriumSeen ==
    /\ Returned
    /\ Len(forces) = 2
    /\ Position(forces[1]) = Position(forces[2])
    /\ Magnitude(forces[1]).n < 0
    /\ Magnitude(forces[2]).n > 0
    /\ Add(R1, R2) = PySum(AllMagnitudes)

\* C2: at every sampled xi the shear is R1 minus the magnitudes of exactly
\* the loads with a <= xi; for a single load P at a, the shear is R1 at every
\* sample before a and R1 - P at every sample at or after a.
ShearIsStep ==
    Returned =>
        /\ \A i \in 1..Len(x) : sfd[i] = Sub(R1, LoadUpTo(x[i]))
        /\ Len(forces) = 1 =>
              \A i \in 1..Len(x) :
                  sfd[i] = IF Gt(Position(forces[1]), x[i])
                             THEN R1
                             ELSE Sub(R1, Magnitude(forces[1]))

\* C2 witness: a single non-zero load exactly on an interior sample; the
\* shear has stepped down at that sample and not at the one before it
ShearStepsAtLoad ==
    /\ Returned
    /\ Len(forces) = 1
    /\ Magnitude(forces[1]) # Zero
    /\ \E i \in 2..(Len(x) - 1) :
          /\ x[i] = Position(forces[1])
          /\ sfd[i] = Sub(R1, Magnitude(forces[1]))
          /\ sfd[i - 1] = R1

\* C3: when every load position lies in [0, length], the moment is 0 at the
\* first sample (x = 0) and 0 at the last sample (x = length); so it is for
\* length 10 with [(5, 10)], and for length 6 with [(2, 6), (4, 6)], where
\* R1 = R2 = 6.
MomentZeroAtSupports ==
    (Returned /\ InSpan) =>
        /\ bmd[1] = Zero
        /\ bmd[Len(bmd)] = Zero
        /\ (BEAM_LENGTH = Num(6)
            /\ forces = <<<<Num(2), Num(6)>>, <<Num(4), Num(6)>>>>)
              => R1 = Num(6) /\ R2 = Num(6)

\* C3 witness: the two-load scenario, the moment non-zero between the supports
MomentZeroAtSupportsSeen ==
    /\ Returned
    /\ BEAM_LENGTH = Num(6)
    /\ forces = <<<<Num(2), Num(6)>>, <<Num(4), Num(6)>>>>
    /\ bmd[1] = Zero /\ bmd[Len(bmd)] = Zero
    /\ \E i \in 1..Len(bmd) : Gt(bmd[i], Num(11))

\* a single load inside the span
SingleLoad == Returned /\ Len(forces) = 1 /\ InSpan

\* C4 as stated: for a single load P at a in [0, L], the moment at x = L
\* equals R1*L - P*(L - a), and this value equals R2*a.
EndMomentIsR2a ==
    SingleLoad =>
        LET a == Position(forces[1])
            P == Magnitude(forces[1])
        IN  /\ bmd[Len(bmd)] = Sub(Mul(R1, BEAM_LENGTH), Mul(P, Sub(BEAM_LENGTH, a)))
            /\ bmd[Len(bmd)] = Mul(R2, a)

\* C4 amended: for a single load P at a in [0, L], the moment at x = L
\* equals R1*L - P*(L - a), and this value is 0; it equals R2*a only when
\* a = 0 or P = 0.
EndMomentIsZero ==
    SingleLoad =>
        LET a == Position(forces[1])
            P == Magnitude(forces[1])
        IN  /\ bmd[Len(bmd)] = Sub(Mul(R1, BEAM_LENGTH), Mul(P, Sub(BEAM_LENGTH, a)))
            /\ bmd[Len(bmd)] = Zero
            /\ (bmd[Len(bmd)] = Mul(R2, a)) <=> (a = Zero \/ P = Zero)

\* C4 witness: length 10 with the single load (5, 10): the end moment is 0
\* while R2*a is 25
EndMomentSeen ==
    /\ SingleLoad
    /\ BEAM_LENGTH = Num(10)
    /\ forces = <<<<Num(5), Num(10)>>>>
    /\ bmd[Len(bmd)] = Zero
    /\ Mul(R2, Position(forces[1])) = Num(25)

\* C5: the position sequence has exactly 400 entries, starts at 0, ends at
\* length and is strictly increasing; shear and moment have as many entries,
\* entry i of each belonging to position i.
SampleGrid ==
    Returned =>
        /\ Len(x) = 400
        /\ x[1] = Zero
        /\ x[Len(x)] = BEAM_LENGTH
        /\ \A i \in 1..(Len(x) - 1) : Gt(x[i + 1], x[i])
        /\ Len(sfd) = Len(x)
        /\ Len(bmd) = Len(x)
        /\ \A i \in 1..Len(x) :
              /\ sfd[i] = Sub(R1, LoadUpTo(x[i]))
              /\ bmd[i] = Sub(Mul(R1, x[i]), LeverUpTo(x[i]))

\* C5 witness: a call with two loads has returned its 400 samples
SampleGridSeen ==
    /\ Returned
    /\ Len(forces) = 2
    /\ Len(x) = 400 /\ Len(sfd) = 400 /\ Len(bmd) = 400
    /\ x[400] = BEAM_LENGTH
    /\ sfd[1] # sfd[400]

\* C10: with an empty load list R1 = 0, R2 = 0, and shear and moment are 0
\* at every sample, and no error is raised.
EmptyLoadsGiveZero ==
    (Returned /\ forces = <<>>) =>
        /\ R1 = Zero
        /\ R2 = Zero
        /\ \A i \in 1..Len(x) : sfd[i] = Zero /\ bmd[i] = Zero
        /\ Len(sfd) = N /\ Len(bmd) = N
        /\ error = "none"

\* C10 witness: the call with no loads has returned
EmptyLoadsSeen ==
    /\ Returned
    /\ forces = <<>>
    /\ Len(sfd) = N
    /\ sfd[N] = Zero /\ bmd[N] = Zero

----------------------------------------------------------------------------
(* Properties of the script, checked under Spec *)

StageOrder == <<"ingest", "compute", "assemble", "render">>

BlockOrder == <<"title_page", "table_of_contents", "introduction",
                "load_table", "shear_force_diagram",
                "bending_moment_diagram", "summary">>

IsPrefix(s, t) == Len(s) <= Len(t) /\ \A i \in 1..Len(s) : s[i] = t[i]

Kinds(d) == [i \in 1..Len(d) |-> d[i].kind]

Printed(m) == \E i \in 1..Len(stdout) : stdout[i] = m

Entered(stage) == \E i \in 1..Len(stages) : stages[i] = stage

Terminated == pc \in {"done", "crashed"}

InputError == error \in {"FileNotFoundError", "KeyError"}

RenderError == error \in {"CompilerError", "CalledProcessError"}

\* C6: once the table block is assembled it holds, after its header row,
\* exactly the input rows, each once and in input order (duplicates kept),
\* and the same pairs in the same order are the load list handed to
\* compute_sfd_bmd.
TableRoundTrip ==
    /\ Entered("compute") => forces = excel.rows
    /\ \A i \in 1..Len(doc) :
          doc[i].kind = "load_table" =>
              /\ doc[i].header = <<"Position (m)", "Force (kN)">>
              /\ Len(doc[i].rows) = Len(excel.rows)
              /\ \A k \in 1..Len(excel.rows) : doc[i].rows[k] = excel.rows[k]
              /\ \A k \in 1..Len(forces) : doc[i].rows[k] = forces[k]

\* C6 witness: a table assembled from two different rows, and one from a
\* row given twice
TableRoundTripSeen ==
    /\ Len(doc) >= 4
    /\ doc[4].kind = "load_table"
    /\ Len(excel.rows) = 2
    /\ Position(excel.rows[1]) # Position(excel.rows[2])
    /\ Magnitude(excel.rows[1]) # Magnitude(excel.rows[2])
    /\ doc[4].rows = excel.rows
    /\ forces = excel.rows

\* C7: the stages happen in the order ingest, compute, assemble, render,
\* each at most once; the blocks are appended in the order title page, table
\* of contents, introduction with image, load table, shear-force diagram,
\* bending-moment diagram, summary; the renderer is invoked only after all
\* blocks are appended and the success message is emitted only after the
\* renderer has returned.
StagesInOrder ==
    /\ IsPrefix(stages, StageOrder)
    /\ IsPrefix(Kinds(doc), BlockOrder)
    /\ Len(x) > 0 => Entered("compute")
    /\ doc # <<>> => Entered("assemble") /\ Len(x) > 0
    /\ Len(doc) >= 3 => doc[3].image = BEAM_IMAGE_PATH
    /\ Len(doc) >= 5 =>
          \A i \in 1..Len(x) : doc[5].coords[i] = <<Round3(x[i]), Round3(sfd[i])>>
    /\ Len(doc) >= 6 =>
          \A i \in 1..Len(x) : doc[6].coords[i] = <<Round3(x[i]), Round3(bmd[i])>>
    /\ Entered("render") => Kinds(doc) = BlockOrder
    /\ files # {} => Entered("render")
    /\ Printed("PDF Generated Successfully!") =>
          /\ Entered("render")
          /\ PdfFile \in files
          /\ error = "none"

\* C7 witness: a run that went through all four stages and printed success
StagesInOrderSeen ==
    /\ pc = "done"
    /\ stages = StageOrder
    /\ Kinds(doc) = BlockOrder
    /\ Printed("PDF Generated Successfully!")
    /\ Len(forces) = 2

\* C8 as stated: a run ends either with the full artifact or with the
\* triggering error and no output, partial or complete; an input-resource
\* error ends it before compute_sfd_bmd is invoked; a rendering error ends
\* it after the computation with no usable artifact.
AllOrNothing ==
    Terminated =>
        /\ \/ pc = "done" /\ error = "none" /\ PdfFile \in files
           \/ pc = "crashed" /\ error # "none" /\ files = {}
        /\ InputError => ~Entered("compute")
        /\ RenderError => Entered("compute") /\ PdfFile \notin files

\* C8 amended: a run ends either with the full artifact or with the
\* triggering error and no complete artifact; an input-resource error ends
\* it before compute_sfd_bmd is invoked, with no file written; a rendering
\* error ends it after the computation, with the .tex source written before
\* the compiler ran (and possibly an incomplete PDF) left on disk; no stage
\* is run again.
AllOrError ==
    /\ Terminated =>
        /\ \/ pc = "done" /\ error = "none" /\ PdfFile \in files
              /\ Printed("PDF Generated Successfully!")
           \/ pc = "crashed" /\ error # "none" /\ PdfFile \notin files
              /\ ~Printed("PDF Generated Successfully!")
        /\ error = "none" \/ InputError \/ RenderError
        /\ InputError =>
              /\ ~Entered("compute")
              /\ Len(x) = 0 /\ R1 = None
              /\ doc = <<>>
              /\ files = {}
        /\ RenderError =>
              /\ stages = StageOrder
              /\ Len(x) = N
              /\ TexFile \in files
    /\ ~Terminated => error = "none"
    /\ (~excel.exists \/ excel.columns # {"Position", "Force"}) =>
          ~Entered("compute") /\ pc # "done"
    /\ IsPrefix(stages, StageOrder)

\* C8 witness: the renderer failed after the computation, leaving the .tex
\* source and an incomplete PDF
RenderFailureSeen ==
    /\ pc = "crashed"
    /\ error = "CalledProcessError"
    /\ Entered("compute")
    /\ TexFile \in files
    /\ PartialPdfFile \in files
    /\ PdfFile \notin files

\* the beam length has been derived and is not positive (0, negative, nan)
Degenerate == BEAM_LENGTH # None /\ ~Gt(BEAM_LENGTH, Zero)

\* C9 as stated: whenever the derived beam length is <= 0, also with no
\* position data, the run aborts with a division-by-zero error in the
\* reaction computation, and neither assembly nor rendering takes place.
DegenerateAborts ==
    (Degenerate /\ pc # "compute") =>
        /\ error = "ZeroDivisionError"
        /\ doc = <<>>
        /\ ~Entered("assemble")
        /\ ~Entered("render")

\* C9 amended: whenever the derived beam length is <= 0, or there is no
\* position data (the length is then nan), the reaction computation raises
\* no error: with length 0 the divisions by zero give nan or infinite
\* reactions, with a negative length finite ones, with no data R1 = R2 = 0;
\* the run goes on to assembly and rendering and can fail only in the
\* renderer.
DegenerateRunsOn ==
    Degenerate =>
        /\ IsNaN(BEAM_LENGTH) <=> forces = <<>>
        /\ Entered("compute") =>
              /\ Len(x) = N
              /\ forces = <<>> => R1 = Zero /\ R2 = Zero
              /\ (BEAM_LENGTH = Zero /\ forces # <<>>) =>
                    ~IsFinite(R1) /\ ~IsFinite(R2)
              /\ (IsFinite(BEAM_LENGTH) /\ BEAM_LENGTH.n < 0) =>
                    IsFinite(R1) /\ IsFinite(R2)
        /\ error = "none" \/ RenderError
        /\ error # "none" => stages = StageOrder /\ Kinds(doc) = BlockOrder

\* C9 witness: a run with beam length 0 and a load has computed its
\* (non-finite) samples, assembled the document and invoked the renderer
DegenerateRendered ==
    /\ Degenerate
    /\ BEAM_LENGTH = Zero
    /\ forces # <<>>
    /\ Kinds(doc) = BlockOrder
    /\ Entered("render")
    /\ \A i \in 1..Len(x) : x[i] = Zero /\ ~IsFinite(sfd[i])

====
